---- MODULE Spec2Model ----
(***************************************************************************)
(* A model of nbmarch: the NBMStore orchestration (validate_request,       *)
(* validate_most_recent_available, retrieve), the initialization-time      *)
(* resolver and the site resolver that runs against "locations.csv".       *)
(*                                                                         *)
(* Time is a chrono::NaiveDateTime counted in whole seconds since          *)
(* 1970-01-01T00:00:00.  Strings are sequences of one-character strings.   *)
(* The local store (filedb), the HTTP transport (reqwest) and the forecast *)
(* parser (nbm_tools) are external: each of their calls is a choice over   *)
(* the results their signatures allow.                                     *)
(***************************************************************************)
EXTENDS Integers, Sequences, FiniteSets, TLC

(***************************************************************************)
(* Bounds of the model.                                                    *)
(***************************************************************************)
\* request times are drawn from the days BaseDay .. BaseDay + MaxDay
MaxDay == 0

\* 2021-02-28, the day of the request in the repository's tests, in days since 1970-01-01
BaseDay == 18686

(***************************************************************************)
(* chrono: calendar fields of a NaiveDateTime and Duration::hours.         *)
(***************************************************************************)
SecondsPerHour == 3600
SecondsPerDay == 86400

\* year(), month() and day() together name the calendar day
DayOf(t) == t \div SecondsPerDay
\* Timelike::hour()
HourOf(t) == (t % SecondsPerDay) \div SecondsPerHour
\* Timelike::minute()
MinuteOf(t) == (t % SecondsPerHour) \div 60
\* Timelike::second()
SecondOf(t) == t % 60
\* NaiveDate::from_ymd(year, month, day).and_hms(h, m, s)
AndHms(day, h, m, s) == day * SecondsPerDay + h * SecondsPerHour + m * 60 + s
\* chrono::Duration::hours(n)
Hours(n) == n * SecondsPerHour

(***************************************************************************)
(* calculate_next_most_recent_nmb_initialization_time                      *)
(***************************************************************************)
\* a resolver that forgets the wrap to the previous day at hour 0
NoWrapInitializationTime(requested_time) ==
    LET hour == HourOf(requested_time)
        delta == IF hour >= 19 THEN Hours(hour - 19)
                 ELSE IF hour >= 13 THEN Hours(hour - 13)
                 ELSE IF hour >= 7 THEN Hours(hour - 7)
                 ELSE IF hour >= 1 THEN Hours(hour - 1)
                 ELSE Hours(0)
    IN AndHms(DayOf(requested_time), hour, 0, 0) - delta

calculate_next_most_recent_nmb_initialization_time(requested_time) ==
    LET day == DayOf(requested_time)
        hour == HourOf(requested_time)
        delta == IF hour >= 19 THEN Hours(hour - 19)
                 ELSE IF hour >= 13 THEN Hours(hour - 13)
                 ELSE IF hour >= 7 THEN Hours(hour - 7)
                 ELSE IF hour >= 1 THEN Hours(hour - 1)
                 ELSE Hours(24 - 19)
    IN AndHms(day, hour, 0, 0) - delta

(***************************************************************************)
(* Strings: sequences of one-character strings.                            *)
(***************************************************************************)
UpperChars == <<"A", "B", "C", "D", "E", "F", "G", "H", "I", "J", "K", "L", "M",
                "N", "O", "P", "Q", "R", "S", "T", "U", "V", "W", "X", "Y", "Z">>
LowerChars == <<"a", "b", "c", "d", "e", "f", "g", "h", "i", "j", "k", "l", "m",
                "n", "o", "p", "q", "r", "s", "t", "u", "v", "w", "x", "y", "z">>
Digits == {"0", "1", "2", "3", "4", "5", "6", "7", "8", "9"}

\* the ASCII case folding SQLite's LIKE applies to each character
ToUpper(c) ==
    IF \E i \in 1..Len(LowerChars) : LowerChars[i] = c
    THEN UpperChars[CHOOSE i \in 1..Len(LowerChars) : LowerChars[i] = c]
    ELSE c

\* str::trim on the characters the model has: leading and trailing spaces
RECURSIVE TrimStart(_)
TrimStart(s) == IF s # <<>> /\ Head(s) = " " THEN TrimStart(Tail(s)) ELSE s
RECURSIVE TrimEnd(_)
TrimEnd(s) ==
    IF s # <<>> /\ s[Len(s)] = " " THEN TrimEnd(SubSeq(s, 1, Len(s) - 1)) ELSE s
Trim(s) == TrimEnd(TrimStart(s))

\* str::parse::<f64> on decimal numerals: an optional sign, digits, at most one point
ParsesAsF64(s) ==
    LET body == IF s # <<>> /\ Head(s) \in {"-", "+"} THEN Tail(s) ELSE s
    IN /\ \E i \in 1..Len(body) : body[i] \in Digits
       /\ \A i \in 1..Len(body) : body[i] \in Digits \cup {"."}
       /\ Cardinality({i \in 1..Len(body) : body[i] = "."}) <= 1

\* SQLite's LIKE: "%" matches any run of characters, "_" any one character, every
\* other character matches itself without regard to ASCII case
RECURSIVE Like(_, _)
Like(str, pattern) ==
    IF pattern = <<>> THEN str = <<>>
    ELSE IF Head(pattern) = "%"
         THEN Like(str, Tail(pattern)) \/ (str # <<>> /\ Like(Tail(str), pattern))
    ELSE IF str = <<>> THEN FALSE
    ELSE IF Head(pattern) = "_" THEN Like(Tail(str), Tail(pattern))
    ELSE ToUpper(Head(str)) = ToUpper(Head(pattern)) /\ Like(Tail(str), Tail(pattern))

\* format!("... '{}' ...", site) yields a statement SQLite can prepare only if the
\* quotes of site leave the literal closed; Sites holds at most one quote per query
SqlPrepares(site) == \A i \in 1..Len(site) : site[i] # "'"

(***************************************************************************)
(* site_validation.rs: the site resolver.  A locations text is the         *)
(* sequence of its CSV records, a record the sequence of its fields.       *)
(***************************************************************************)
\* a reader built with has_headers(false): the first record is a row like the others
CsvRecordsNoHeader(locations_str) ==
    SelectSeq(locations_str, LAMBDA rec : Len(rec) = Len(Head(locations_str)))

\* csv::Reader::from_reader reads the first record as the header; a later record
\* whose field count differs from it is an Err that filter_map drops
CsvRecords(locations_str) ==
    IF locations_str = <<>> THEN <<>>
    ELSE SelectSeq(Tail(locations_str),
                   LAMBDA rec : Len(rec) = Len(Head(locations_str)))

\* a table declared ON CONFLICT REPLACE: the last row of an id wins
RECURSIVE InsertRowsReplacing(_, _)
InsertRowsReplacing(records, table) ==
    IF records = <<>> THEN table
    ELSE LET rec == Head(records)
             row == [id |-> Trim(rec[1]), name |-> Trim(rec[2]),
                     state_prov |-> Trim(rec[3]),
                     latitude |-> rec[4], longitude |-> rec[5]]
         IN IF Len(rec) < 5 \/ ~ParsesAsF64(rec[4]) \/ ~ParsesAsF64(rec[5])
            THEN InsertRowsReplacing(Tail(records), table)
            ELSE InsertRowsReplacing(Tail(records),
                    Append(SelectSeq(table, LAMBDA r : r.id # row.id), row))

\* the loop of build_locations_database: INSERT ... PRIMARY KEY (id) ON CONFLICT IGNORE
RECURSIVE InsertRows(_, _)
InsertRows(records, table) ==
    IF records = <<>> THEN table
    ELSE LET rec == Head(records)
             row == [id |-> Trim(rec[1]), name |-> Trim(rec[2]),
                     state_prov |-> Trim(rec[3]),
                     latitude |-> rec[4], longitude |-> rec[5]]
         IN IF Len(rec) < 5 \/ ~ParsesAsF64(rec[4]) \/ ~ParsesAsF64(rec[5])
            THEN InsertRows(Tail(records), table)
            ELSE IF \E i \in 1..Len(table) : table[i].id = row.id
            THEN InsertRows(Tail(records), table)
            ELSE InsertRows(Tail(records), Append(table, row))

build_locations_database(locations_str) == InsertRows(CsvRecords(locations_str), <<>>)

\* SELECT ... WHERE id = '{site}': SQLite compares TEXT with the BINARY collation
find_exact_case_insensitive_match(loc_db, site) ==
    SelectSeq(loc_db, LAMBDA row : row.id = site)

\* SELECT ... WHERE id LIKE '%{site}%' OR name LIKE '%{site}%' OR state LIKE '{site}'
find_similar_sites(loc_db, site) ==
    LET pattern == <<"%">> \o site \o <<"%">>
    IN SelectSeq(loc_db, LAMBDA row : \/ Like(row.id, pattern)
                                      \/ Like(row.name, pattern)
                                      \/ Like(row.state_prov, site))

\* Result<SiteInfo, Error> of validate(site, locations_str)
OkSite(site_info) == [tag |-> "Ok", site |-> site_info]
NoMatch(site) == [tag |-> "NoMatch", site |-> site]
AmbiguousSite(matches) == [tag |-> "AmbiguousSite", matches |-> matches]
Internal(cause) == [tag |-> "Internal", cause |-> cause]

validate(site, locations_str) ==
    LET loc_db == build_locations_database(locations_str)
        exact == find_exact_case_insensitive_match(loc_db, site)
        matches == find_similar_sites(loc_db, site)
    IN IF ~SqlPrepares(site) THEN Internal("rusqlite")
       ELSE IF exact # <<>> THEN OkSite(exact[1])
       ELSE IF matches = <<>> THEN NoMatch(site)
       ELSE IF Len(matches) > 1 THEN AmbiguousSite(matches)
       ELSE OkSite(matches[1])

(***************************************************************************)
(* Inputs and the external world.                                          *)
(***************************************************************************)
\* offsets of a request within its hour: hh:00:00 and hh:15:00
Offsets == {0, 900}
RequestTimes ==
    {AndHms(BaseDay + d, h, 0, 0) + o : d \in 0..MaxDay, h \in 0..23, o \in Offsets}

KMSO == <<"K", "M", "S", "O">>
KBTM == <<"K", "B", "T", "M">>
MT == <<"M", "T">>
\* the queries callers make: an id, a state two rows share, a name no row has,
\* and a name with an apostrophe
Sites == {KMSO, MT, <<"Z", "Z">>, <<"O", "'", "B">>}

\* a locations.csv of the archive: a header record and two rows of the same state
LocationsTable ==
    << <<<<"i", "d">>, <<"n", "a", "m", "e">>, <<"s", "t">>, <<"l", "a", "t">>,
         <<"l", "o", "n">>>>,
       <<KMSO, <<"M", "I", "S", "S", "O", "U", "L", "A">>, MT,
         <<"4", "6", ".", "9", "2">>, <<"-", "1", "1", "4", ".", "0", "9">>>>,
       <<KBTM, <<"B", "U", "T", "T", "E">>, MT,
         <<"4", "5", ".", "9", "5">>, <<"-", "1", "1", "2", ".", "5", "0">>>> >>
\* a forecast file of the archive
ForecastText == << <<<<"d", "a", "t", "a">>>> >>
\* the body of an error page: reqwest's get(..).text() is Ok for any HTTP status
ErrorPage == << <<<<"4", "0", "4">>>> >>

LocationsCsv == <<"l", "o", "c", "a", "t", "i", "o", "n", "s", ".", "c", "s", "v">>
DotCsv == <<".", "c", "s", "v">>

\* SiteValidation::file_name
file_name(validation) == validation.site.id \o DotCsv

\* str::as_bytes and String::from_utf8: bytes are valid UTF-8 text or they are not
as_bytes(text) == [valid |-> TRUE, text |-> text]
InvalidBytes == [valid |-> FALSE, text |-> <<>>]

\* download_file(fname, init_time): Err(reqwest) or Ok(body)
DownloadErr == [tag |-> "Err"]
DownloadOk(text) == [tag |-> "Ok", text |-> text]
DownloadResults(fname) ==
    {DownloadErr, DownloadOk(ErrorPage),
     DownloadOk(IF fname = LocationsCsv THEN LocationsTable ELSE ForecastText)}

\* what the external calls of one handler return: filedb's retrieve_file and
\* add_file succeed or fail, the download yields one of DownloadResults
Externals(fname) ==
    [read : {"ok", "err"}, download : DownloadResults(fname), add : {"ok", "err"},
     parse : IF fname = LocationsCsv THEN {"ok"} ELSE {"ok", "err"}]

\* FileDB::retrieve_file: Err(filedb::Error), Ok(None) or Ok(Some(bytes))
retrieve_file(local_store, key, outcome) ==
    IF outcome = "err" THEN [tag |-> "Err"]
    ELSE IF key \in DOMAIN local_store THEN [tag |-> "Some", bytes |-> local_store[key]]
    ELSE [tag |-> "None"]

\* a store that keeps only the entry written last
AddFileAlone(local_store, key, bytes, outcome) ==
    IF outcome = "err" THEN local_store ELSE (key :> bytes)

\* a store that reports the write and keeps nothing
AddFileForgetting(local_store, key, bytes, outcome) == local_store

\* FileDB::add_file: the store after the call
add_file(local_store, key, bytes, outcome) ==
    IF outcome = "err" THEN local_store ELSE (key :> bytes) @@ local_store

\* the stores a caller may connect to: a fresh one, or one an earlier run left
\* with the 13:00 run of BaseDay in it, readable or damaged
EmptyStore == <<>>
TestSlot == AndHms(BaseDay, 13, 0, 0)
InitialStores ==
    {EmptyStore,
     <<LocationsCsv, TestSlot>> :> as_bytes(LocationsTable),
     <<LocationsCsv, TestSlot>> :> InvalidBytes,
     (<<LocationsCsv, TestSlot>> :> as_bytes(LocationsTable))
        @@ (<<KMSO \o DotCsv, TestSlot>> :> InvalidBytes)}

(***************************************************************************)
(* error.rs: the values of Result<_, Error> the store returns.             *)
(***************************************************************************)
LocalStore == [tag |-> "LocalStore"]
NBMDataErr == [tag |-> "NBMData"]
InitializationTimeNotAvailable(init_time) ==
    [tag |-> "InitializationTimeNotAvailable", time |-> init_time]
\* Ok(SiteValidation::new(site_info, init_time))
OkValidation(site_info, init_time) ==
    [tag |-> "Ok", site |-> site_info, initialization_time |-> init_time]
OkData(text) == [tag |-> "OkData", text |-> text]
NoResult == [tag |-> "None"]

(***************************************************************************)
(* nbm_store.rs: NBMStore.                                                 *)
(***************************************************************************)
VARIABLES
    local_store,            \* NBMStore::local_store: key <<file name, init time>> -> bytes
    pc,                     \* "idle", or "loop" inside validate_most_recent_available
    call,                   \* the call in progress or last returned, with its arguments
    attempts_left,          \* local of validate_most_recent_available
    attempt_request_time,   \* local of validate_most_recent_available
    result,                 \* what the last call returned; NoResult while one runs
    history                 \* one entry per validate_request or retrieve body the call ran

vars == <<local_store, pc, call, attempts_left, attempt_request_time, result, history>>

\* the number of versions validate_most_recent_available looks back
MaxAttempts == 20

\* what one run of a handler body did: the key it used and the external calls it made
Entry(fn, site, request_time, key) ==
    [fn |-> fn, site |-> site, request_time |-> request_time, key |-> key,
     read |-> "none", download |-> "none", add |-> "none",
     resolved |-> FALSE, text |-> <<>>, result |-> NoResult]

\* the entry of a finished body, with the Result it returned
Returned(r) == [r.entry EXCEPT !.result = r.result]

\* locations_str.ok_or_else(|| Error::InitializationTimeNotAvailable(init_time))
ok_or_else(init_time) == InitializationTimeNotAvailable(init_time)

\* validate(site, &locations_str).map(|site_info| SiteValidation::new(site_info, init_time))
map_validation(validated, init_time) ==
    IF validated.tag = "Ok" THEN OkValidation(validated.site, init_time) ELSE validated

\* an arm that passes the transport error up, as retrieve does
PassUpDownloadError(init_time) == Internal("reqwest")

\* the Err(_) arm of validate_request's download: the error is dropped
download_error_in_validate(init_time) == ok_or_else(init_time)

\* a conversion that boxes the store's error like the other From impls
ReadErrorBoxed(err) == Internal("filedb")

\* the result of self.local_store.retrieve_file(..)? when the read is an Err
read_error(err) == LocalStore

\* NBMStore::validate_request; the value is the returned Result, the store after
\* the call and the entry of what the call did
validate_request(store, site, request_time, ext) ==
    LET init_time == calculate_next_most_recent_nmb_initialization_time(request_time)
        key == <<LocationsCsv, init_time>>
        e == Entry("validate_request", site, request_time, key)
        read == retrieve_file(store, key, ext.read)
        resolve(text, store2, e2) ==
            [result |-> map_validation(validate(site, text), init_time),
             local_store |-> store2,
             entry |-> [e2 EXCEPT !.resolved = TRUE, !.text = text]]
    IN IF read.tag = "Err"
       THEN [result |-> read_error(read), local_store |-> store,
             entry |-> [e EXCEPT !.read = "err"]]
       ELSE IF read.tag = "Some"
       THEN IF ~read.bytes.valid
            THEN [result |-> Internal("utf8"), local_store |-> store,
                  entry |-> [e EXCEPT !.read = "hit"]]
            ELSE resolve(read.bytes.text, store, [e EXCEPT !.read = "hit"])
       ELSE IF ext.download.tag = "Err"
       THEN [result |-> download_error_in_validate(init_time), local_store |-> store,
             entry |-> [e EXCEPT !.read = "miss", !.download = "err"]]
       ELSE resolve(ext.download.text,
                    add_file(store, key, as_bytes(ext.download.text), ext.add),
                    [e EXCEPT !.read = "miss", !.download = "ok", !.add = ext.add])

\* an arm that replaces the transport error by an error kind of its own
DataNotAvailableError(err) == [tag |-> "DataNotAvailable"]

\* the Err(_) arm of retrieve's download: err @ Err(_) => err, then `?`
download_error_in_retrieve(err) == Internal("reqwest")

\* self.local_store.add_file(..)? in retrieve when the write is an Err
add_error_in_retrieve(text) == LocalStore

\* nbm_tools::NBMData::from_str(data_str)?
from_str(text, outcome) == IF outcome = "ok" THEN OkData(text) ELSE NBMDataErr

\* NBMStore::retrieve
retrieve(store, validation, ext) ==
    LET key == <<file_name(validation), validation.initialization_time>>
        e == Entry("retrieve", validation.site.id, validation.initialization_time, key)
        read == retrieve_file(store, key, ext.read)
    IN IF read.tag = "Err"
       THEN [result |-> read_error(read), local_store |-> store,
             entry |-> [e EXCEPT !.read = "err"]]
       ELSE IF read.tag = "Some"
       THEN IF ~read.bytes.valid
            THEN [result |-> Internal("utf8"), local_store |-> store,
                  entry |-> [e EXCEPT !.read = "hit"]]
            ELSE [result |-> from_str(read.bytes.text, ext.parse), local_store |-> store,
                  entry |-> [e EXCEPT !.read = "hit", !.text = read.bytes.text]]
       ELSE IF ext.download.tag = "Err"
       THEN [result |-> download_error_in_retrieve(ext.download), local_store |-> store,
             entry |-> [e EXCEPT !.read = "miss", !.download = "err"]]
       ELSE IF ext.add = "err"
       THEN [result |-> add_error_in_retrieve(ext.download.text), local_store |-> store,
             entry |-> [e EXCEPT !.read = "miss", !.download = "ok", !.add = "err",
                                 !.text = ext.download.text]]
       ELSE [result |-> from_str(ext.download.text, ext.parse),
             local_store |-> add_file(store, key, as_bytes(ext.download.text), "ok"),
             entry |-> [e EXCEPT !.read = "miss", !.download = "ok", !.add = "ok",
                                 !.text = ext.download.text]]

\* a step that forgets to go back: the same run is tried again
SameAttemptTime(init_time) == init_time

\* a step that goes back a whole period and the hour: every other run is skipped
SkippingAttemptTime(init_time) == init_time - Hours(7)

\* a step that looks one version forward instead of back
ForwardAttemptTime(init_time) == init_time + Hours(6)

\* attempt_request_time = *init_time - chrono::Duration::hours(1)
next_attempt_request_time(init_time) == init_time - Hours(1)

\* a match that also walks back when the cached bytes did not decode
MatchRetryingDecodeError(validation, attempt_time) ==
    IF validation.tag = "InitializationTimeNotAvailable"
    THEN [return |-> FALSE, attempt_request_time |-> validation.time - Hours(1)]
    ELSE IF validation.tag = "Internal"
    THEN [return |-> FALSE, attempt_request_time |-> attempt_time - Hours(6)]
    ELSE [return |-> TRUE, attempt_request_time |-> attempt_time]

\* a match that also goes round again when the site has no match
MatchRetryingNoMatch(validation, attempt_time) ==
    IF validation.tag = "InitializationTimeNotAvailable"
    THEN [return |-> FALSE, attempt_request_time |-> validation.time - Hours(1)]
    ELSE IF validation.tag = "NoMatch"
    THEN [return |-> FALSE, attempt_request_time |-> attempt_time - Hours(6)]
    ELSE [return |-> TRUE, attempt_request_time |-> attempt_time]

\* match &validation: Err(InitializationTimeNotAvailable(init_time)) moves the
\* attempt's request time and goes on, anything else returns
match_validation(validation, attempt_time) ==
    IF validation.tag = "InitializationTimeNotAvailable"
    THEN [return |-> FALSE,
          attempt_request_time |-> next_attempt_request_time(validation.time)]
    ELSE [return |-> TRUE, attempt_request_time |-> attempt_time]

\* an exit test that is off by one: a 21st attempt is made
OutOfAttemptsOffByOne(left) == left < 0

\* attempts_left -= 1; if attempts_left < 1 { return validation; }
out_of_attempts(left) == left < 1

Init ==
    /\ local_store \in InitialStores
    /\ pc = "idle"
    /\ call = [fn |-> "none"]
    /\ attempts_left = 0
    /\ attempt_request_time = 0
    /\ result = NoResult
    /\ history = <<>>

\* A behaviour is one request on a store: a validation call, and after a validation
\* that succeeded the retrieval of its file.

\* a caller runs validate_request(site, request_time)
ValidateRequest ==
    /\ pc = "idle"
    /\ call.fn = "none"
    /\ \E site \in Sites, request_time \in RequestTimes, ext \in Externals(LocationsCsv) :
         LET r == validate_request(local_store, site, request_time, ext)
         IN /\ call' = [fn |-> "validate_request", site |-> site,
                        request_time |-> request_time]
            /\ result' = r.result
            /\ local_store' = r.local_store
            /\ history' = <<Returned(r)>>
    /\ UNCHANGED <<pc, attempts_left, attempt_request_time>>

\* a caller enters validate_most_recent_available(site, request_time)
MostRecentCall ==
    /\ pc = "idle"
    /\ call.fn = "none"
    /\ \E site \in Sites, request_time \in RequestTimes :
         /\ call' = [fn |-> "validate_most_recent_available", site |-> site,
                     request_time |-> request_time]
         /\ attempt_request_time' = request_time
    /\ attempts_left' = MaxAttempts
    /\ pc' = "loop"
    /\ result' = NoResult
    /\ history' = <<>>
    /\ UNCHANGED local_store

\* one turn of the loop of validate_most_recent_available
MostRecentAttempt ==
    /\ pc = "loop"
    /\ \E ext \in Externals(LocationsCsv) :
         LET r == validate_request(local_store, call.site, attempt_request_time, ext)
               m == match_validation(r.result, attempt_request_time)
         IN /\ local_store' = r.local_store
            /\ history' = Append(history, Returned(r))
            /\ attempt_request_time' = m.attempt_request_time
            /\ IF m.return
               THEN /\ pc' = "idle"
                    /\ result' = r.result
                    /\ UNCHANGED attempts_left
               ELSE /\ attempts_left' = attempts_left - 1
                    /\ IF out_of_attempts(attempts_left - 1)
                       THEN pc' = "idle" /\ result' = r.result
                       ELSE pc' = "loop" /\ result' = result
    /\ UNCHANGED call

\* a caller hands the validation it just got to retrieve
Retrieve ==
    /\ pc = "idle"
    /\ result.tag = "Ok"
    /\ \E ext \in Externals(file_name(result)) :
         LET r == retrieve(local_store, result, ext)
         IN /\ result' = r.result
            /\ local_store' = r.local_store
            /\ history' = <<Returned(r)>>
    /\ call' = [fn |-> "retrieve", validation |-> result]
    /\ UNCHANGED <<pc, attempts_left, attempt_request_time>>

Next == ValidateRequest \/ MostRecentCall \/ MostRecentAttempt \/ Retrieve

Spec == Init /\ [][Next]_vars

(***************************************************************************)
(* The site resolver on its own: validate(site, locations_str) applied to  *)
(* a query and a locations text drawn from small pools.                    *)
(***************************************************************************)
\* number of records a locations text has after its first
MaxRows == 2

HeaderRecord == LocationsTable[1]
GoodLat == <<"4", "6", ".", "9">>
GoodLon == <<"-", "1", "1", "4">>
KM == <<"K", "M">>
\* the records a locations text is made of: ids are station codes
RecordPool ==
    {<<KM, <<"M", "I", "S", "O">>, MT, GoodLat, GoodLon>>,
     \* a second station whose name contains the id of the first
     <<<<"K", "B">>, <<"K", "M", "X">>, MT, GoodLat, GoodLon>>,
     \* the id of the first again, with another name, state and place
     <<KM, <<"D", "U", "P">>, <<"I", "D">>, <<"1", "2">>, <<"3", "4">>>>,
     \* a latitude that is no number
     <<<<"K", "X">>, <<"B", "A", "D">>, MT, <<"n", "o">>, GoodLon>>,
     \* a station whose id is the state of others
     <<MT, <<"E", "A", "S", "T">>, <<"W", "A">>, GoodLat, GoodLon>>}

\* the texts: a first record, the header or a station, and up to MaxRows more
LocationTexts ==
    {<<>>} \cup
    {<<first>> \o rest :
        first \in {HeaderRecord} \cup RecordPool,
        rest \in UNION {[1..n -> RecordPool] : n \in 0..MaxRows}}

\* the queries: ids, states and names in several cases, no match, the LIKE
\* wildcards and an apostrophe
Queries ==
    {KM, <<"k", "m">>, <<"K", "m">>, MT, <<"m", "t">>, <<"K", "B">>,
     <<"m", "i", "s", "o">>, <<"Z", "Z">>, <<"K", "_">>, <<"%">>, <<"O", "'", "B">>}

InitResolve ==
    /\ call \in {[fn |-> "validate", site |-> q, locations_str |-> t] :
                    q \in Queries, t \in LocationTexts}
    /\ result = NoResult
    /\ local_store = EmptyStore
    /\ pc = "idle"
    /\ attempts_left = 0
    /\ attempt_request_time = 0
    /\ history = <<>>

\* the caller's validate(site, &locations_str) returns
Resolve ==
    /\ call.fn = "validate"
    /\ result = NoResult
    /\ result' = validate(call.site, call.locations_str)
    /\ UNCHANGED <<local_store, pc, call, attempts_left, attempt_request_time, history>>

NextResolve == Resolve

SpecResolve == InitResolve /\ [][NextResolve]_vars


(***************************************************************************)
(* download.rs: the URL a file is downloaded from.                         *)
(***************************************************************************)
\* days on each side of the day NBM 4.0 started that a URL is built for
MaxUrlDays == 1

\* chrono::NaiveDate::from_ymd(2020, 9, 23), in days since 1970-01-01
Nbm4StartDay == 18528

\* const BASE_URL
BASE_URL ==
    <<"h", "t", "t", "p", "s", ":", "/", "/", "h", "w", "p", "-",
      "v", "i", "z", ".", "g", "s", "d", ".", "e", "s", "r", "l",
      ".", "n", "o", "a", "a", ".", "g", "o", "v", "/", "w", "a",
      "v", "e", "1", "d", "/", "d", "a", "t", "a", "/", "a", "r",
      "c", "h", "i", "v", "e", "/">>

\* Datelike::year, month and day of the date `days` days after 1970-01-01
\* (proleptic Gregorian calendar, days >= -719468)
CivilFromDays(days) ==
    LET z == days + 719468
        era == z \div 146097
        doe == z % 146097
        yoe == (doe - doe \div 1460 + doe \div 36524 - doe \div 146096) \div 365
        doy == doe - (365 * yoe + yoe \div 4 - yoe \div 100)
        mp == (5 * doy + 2) \div 153
        m == IF mp < 10 THEN mp + 3 ELSE mp - 9
    IN [year |-> yoe + era * 400 + (IF m <= 2 THEN 1 ELSE 0),
        month |-> m,
        day |-> doy - (153 * mp + 2) \div 5 + 1]

\* the decimal digits of a natural number
RECURSIVE Decimal(_)
Decimal(n) ==
    LET digit == <<"0", "1", "2", "3", "4", "5", "6", "7", "8", "9">>[(n % 10) + 1]
    IN IF n < 10 THEN <<digit>> ELSE Append(Decimal(n \div 10), digit)

\* format!("{:0w}") and format!("{:w}") of a natural number: the digits, filled on
\* the left up to the width
RECURSIVE PadLeft(_, _, _)
PadLeft(str, width, fill) ==
    IF Len(str) >= width THEN str ELSE PadLeft(<<fill>> \o str, width, fill)

\* fname.replace(" ", "%20")
RECURSIVE format_file_name_for_download(_)
format_file_name_for_download(fname) ==
    IF fname = <<>> THEN <<>>
    ELSE (IF Head(fname) = " " THEN <<"%", "2", "0">> ELSE <<Head(fname)>>)
         \o format_file_name_for_download(Tail(fname))

\* The URL is built for any NaiveDateTime, also one centuries from 1970 whose
\* count of seconds is out of the range of the model's integers: here a time is
\* held as chrono holds it, the date in days since 1970-01-01 and the seconds
\* since midnight.
NaiveDateTime(days, seconds) == [date |-> days, secs |-> seconds]

\* the order of NaiveDateTime: by date, then by time of day
After(t, u) == t.date > u.date \/ (t.date = u.date /\ t.secs > u.secs)

\* nbm_4_starts = NaiveDate::from_ymd(2020, 9, 23).and_hms(0, 0, 0)
nbm_4_starts == NaiveDateTime(Nbm4StartDay, 0)

\* a test that puts the first instant of the day under the new schema
AtOrAfterNbm4Starts(init_time) == ~After(nbm_4_starts, init_time)

\* if init_time > nbm_4_starts
after_nbm_4_starts(init_time) == After(init_time, nbm_4_starts)

\* build_download_url
build_download_url(fname, init_time) ==
    LET date == CivilFromDays(init_time.date)
        month == PadLeft(Decimal(date.month), 2, "0")
        day == PadLeft(Decimal(date.day), 2, "0")
        hour == PadLeft(Decimal(init_time.secs \div SecondsPerHour), 2, "0")
        url_fname == format_file_name_for_download(fname)
    IN IF after_nbm_4_starts(init_time)
       THEN BASE_URL \o PadLeft(Decimal(date.year), 4, "0") \o <<"/">> \o month
            \o <<"/">> \o day \o <<"/", "N", "B", "M", "4", ".", "0", "/">> \o hour
            \o <<"/">> \o url_fname
       ELSE BASE_URL \o PadLeft(Decimal(date.year), 4, " ") \o <<"/">> \o month
            \o <<"/">> \o day \o <<"/", "N", "B", "M", "/">> \o hour
            \o <<"/">> \o url_fname

\* 1000-01-01, the first day whose year fills the width of {:4}, in days since
\* 1970-01-01
FirstFourDigitYearDay == 0 - 354285

\* the files and initialization times a URL is built for: the locations file, a
\* site's file and one whose site id holds a space; every hour of the days
\* around the start of NBM 4.0 and around the first day of the year 1000, on the
\* hour, a second and a quarter past it
UrlFileNames == {LocationsCsv, KMSO \o DotCsv, <<"S", " ", "F">> \o DotCsv}
UrlOffsets == {0, 1, 900}
UrlInitTimes ==
    {NaiveDateTime(base + d, h * SecondsPerHour + o) :
        base \in {Nbm4StartDay, FirstFourDigitYearDay},
        d \in (0 - MaxUrlDays)..MaxUrlDays, h \in 0..23, o \in UrlOffsets}

Url(text) == [tag |-> "Url", url |-> text]

InitUrl ==
    /\ call \in {[fn |-> "build_download_url", fname |-> f, init_time |-> t] :
                    f \in UrlFileNames, t \in UrlInitTimes}
    /\ result = NoResult
    /\ local_store = EmptyStore
    /\ pc = "idle"
    /\ attempts_left = 0
    /\ attempt_request_time = 0
    /\ history = <<>>

\* download_file builds the URL of its request
BuildDownloadUrl ==
    /\ call.fn = "build_download_url"
    /\ result = NoResult
    /\ result' = Url(build_download_url(call.fname, call.init_time))
    /\ UNCHANGED <<local_store, pc, call, attempts_left, attempt_request_time, history>>

NextUrl == BuildDownloadUrl

SpecUrl == InitUrl /\ [][NextUrl]_vars

(***************************************************************************)
(* A store that serves several calls, one after the other.                 *)
(***************************************************************************)
\* the number of validate_request and retrieve calls made on one store
MaxSeqCalls == 3

\* the request times and sites of those calls: two runs, two sites of the table
SeqRequestTimes == {TestSlot, TestSlot + Hours(6)}
SeqSites == {KMSO, KBTM}

\* the validation a caller holds: the one just returned, or the one it passed to
\* retrieve before (SiteValidation is Clone)
HeldValidations ==
    (IF result.tag = "Ok" THEN {result} ELSE {})
    \cup (IF call.fn = "retrieve" THEN {call.validation} ELSE {})

InitSeq ==
    /\ local_store = EmptyStore
    /\ pc = "idle"
    /\ call = [fn |-> "none"]
    /\ attempts_left = 0
    /\ attempt_request_time = 0
    /\ result = NoResult
    /\ history = <<>>

\* a caller runs validate_request(site, request_time) on the store
SeqValidateRequest ==
    /\ Len(history) < MaxSeqCalls
    /\ \E site \in SeqSites, request_time \in SeqRequestTimes,
          ext \in Externals(LocationsCsv) :
         LET r == validate_request(local_store, site, request_time, ext)
         IN /\ call' = [fn |-> "validate_request", site |-> site,
                        request_time |-> request_time]
            /\ result' = r.result
            /\ local_store' = r.local_store
            /\ history' = Append(history, Returned(r))
    /\ UNCHANGED <<pc, attempts_left, attempt_request_time>>

\* a caller runs retrieve(validation) with a validation it holds
SeqRetrieve ==
    /\ Len(history) < MaxSeqCalls
    /\ \E validation \in HeldValidations :
         \E ext \in Externals(file_name(validation)) :
           LET r == retrieve(local_store, validation, ext)
           IN /\ result' = r.result
              /\ local_store' = r.local_store
              /\ history' = Append(history, Returned(r))
              /\ call' = [fn |-> "retrieve", validation |-> validation]
    /\ UNCHANGED <<pc, attempts_left, attempt_request_time>>

NextSeq == SeqValidateRequest \/ SeqRetrieve

SpecSeq == InitSeq /\ [][NextSeq]_vars

(***************************************************************************)
(* Two callers on one store at the same time.  Each runs the body of       *)
(* validate_request or of retrieve; the bodies interleave at their calls   *)
(* to the store and to the transport.  Here pc, call, result and history   *)
(* hold one value per caller: the caller's position, its call, what it     *)
(* returned and the entry of what its body has done so far.                *)
(***************************************************************************)
Callers == {1, 2}

\* the SiteValidation an earlier validate_request returned for a site of the table
ValidationOf(site) ==
    map_validation(validate(site, LocationsTable), TestSlot)

\* the calls the callers make: validations in two runs and retrievals for two sites
ConcCalls ==
    {[fn |-> "validate_request", site |-> KMSO, request_time |-> t] :
        t \in SeqRequestTimes}
    \cup {[fn |-> "retrieve", validation |-> ValidationOf(site)] : site \in SeqSites}

\* the body of a caller's call, run on a store with the results ext of its
\* external calls
Body(c, store, ext) ==
    IF c.fn = "validate_request"
    THEN validate_request(store, c.site, c.request_time, ext)
    ELSE retrieve(store, c.validation, ext)

\* the key a call reads and writes
KeyOf(c) ==
    IF c.fn = "validate_request"
    THEN <<LocationsCsv, calculate_next_most_recent_nmb_initialization_time(c.request_time)>>
    ELSE <<file_name(c.validation), c.validation.initialization_time>>

\* the entry of a call that has not done anything yet
EntryOf(c) ==
    IF c.fn = "validate_request"
    THEN Entry("validate_request", c.site, c.request_time, KeyOf(c))
    ELSE Entry("retrieve", c.validation.site.id, c.validation.initialization_time,
               KeyOf(c))

InitConc ==
    /\ local_store = EmptyStore
    /\ call \in [Callers -> ConcCalls]
    /\ pc = [c \in Callers |-> "read"]
    /\ result = [c \in Callers |-> NoResult]
    /\ history = [c \in Callers |-> EntryOf(call[c])]
    /\ attempts_left = 0
    /\ attempt_request_time = 0

\* self.local_store.retrieve_file(..)?: an error or a hit ends the body at once,
\* a miss takes it to the download
ConcRead(c) ==
    /\ pc[c] = "read"
    /\ \E ext \in Externals(KeyOf(call[c])[1]) :
         LET read == retrieve_file(local_store, KeyOf(call[c]), ext.read)
             r == Body(call[c], local_store, ext)
         IN IF read.tag = "None"
            THEN /\ pc' = [pc EXCEPT ![c] = "download"]
                 /\ history' = [history EXCEPT ![c].read = "miss"]
                 /\ UNCHANGED result
            ELSE /\ pc' = [pc EXCEPT ![c] = "done"]
                 /\ history' = [history EXCEPT ![c] = Returned(r)]
                 /\ result' = [result EXCEPT ![c] = r.result]
    /\ UNCHANGED <<local_store, call, attempts_left, attempt_request_time>>

\* download_file(..) after the miss: an error ends the body, a text takes it to
\* the write
ConcDownload(c) ==
    /\ pc[c] = "download"
    /\ \E ext \in Externals(KeyOf(call[c])[1]) :
         LET r == Body(call[c], EmptyStore, ext)
         IN /\ ext.read = "ok"
            /\ IF ext.download.tag = "Err"
               THEN /\ pc' = [pc EXCEPT ![c] = "done"]
                    /\ history' = [history EXCEPT ![c] = Returned(r)]
                    /\ result' = [result EXCEPT ![c] = r.result]
               ELSE /\ pc' = [pc EXCEPT ![c] = "write"]
                    /\ history' = [history EXCEPT ![c].download = "ok",
                                                  ![c].text = ext.download.text]
                    /\ UNCHANGED result
    /\ UNCHANGED <<local_store, call, attempts_left, attempt_request_time>>

\* self.local_store.add_file(..) with the text downloaded, and the rest of the
\* body: the body saw a miss, the write goes to the store as it is now
ConcWrite(c) ==
    /\ pc[c] = "write"
    /\ \E ext \in Externals(KeyOf(call[c])[1]) :
         LET r == Body(call[c], EmptyStore, ext)
         IN /\ ext.read = "ok"
            /\ ext.download = DownloadOk(history[c].text)
            /\ local_store' = add_file(local_store, KeyOf(call[c]),
                                       as_bytes(history[c].text), ext.add)
            /\ history' = [history EXCEPT ![c] = Returned(r)]
            /\ result' = [result EXCEPT ![c] = r.result]
    /\ pc' = [pc EXCEPT ![c] = "done"]
    /\ UNCHANGED <<call, attempts_left, attempt_request_time>>

NextConc == \E c \in Callers : ConcRead(c) \/ ConcDownload(c) \/ ConcWrite(c)

SpecConc == InitConc /\ [][NextConc]_vars

(***************************************************************************)
(* A store an earlier run left entries in, serving calls of all three      *)
(* kinds one after the other.                                              *)
(***************************************************************************)
\* the number of calls made on the store
MaxCalls == 2

InitCalls ==
    /\ local_store \in InitialStores
    /\ pc = "idle"
    /\ call = [fn |-> "none"]
    /\ attempts_left = 0
    /\ attempt_request_time = 0
    /\ result = NoResult
    /\ history = <<>>

\* the next call is made when the one before has returned
CallsValidateRequest == pc = "idle" /\ Len(history) < MaxCalls /\ SeqValidateRequest

CallsRetrieve == pc = "idle" /\ Len(history) < MaxCalls /\ SeqRetrieve

\* a caller enters validate_most_recent_available(site, request_time)
CallsMostRecentCall ==
    /\ pc = "idle"
    /\ Len(history) < MaxCalls
    /\ \E site \in SeqSites, request_time \in SeqRequestTimes :
         /\ call' = [fn |-> "validate_most_recent_available", site |-> site,
                     request_time |-> request_time]
         /\ attempt_request_time' = request_time
    /\ attempts_left' = MaxAttempts
    /\ pc' = "loop"
    /\ result' = NoResult
    /\ UNCHANGED <<local_store, history>>

NextCalls ==
    CallsValidateRequest \/ CallsRetrieve \/ CallsMostRecentCall \/ MostRecentAttempt

SpecCalls == InitCalls /\ [][NextCalls]_vars

(***************************************************************************)
(* Vocabulary of the claims.                                               *)
(***************************************************************************)
\* the hours of the day at which the archive publishes a run
RunHours == {1, 7, 13, 19}
\* a timestamp aligned to the schedule
IsSlot(t) == HourOf(t) \in RunHours /\ MinuteOf(t) = 0 /\ SecondOf(t) = 0
\* the schedule slots in the half-open interval (low, high], low a whole hour
SlotsAfterUpTo(low, high) ==
    {x \in {low + Hours(k) : k \in 1..((high - low) \div SecondsPerHour)} : IsSlot(x)}
Max(S) == CHOOSE x \in S : \A y \in S : y <= x

\* the entries of the validate_request bodies the call ran
Attempts == {i \in 1..Len(history) : history[i].fn = "validate_request"}
\* the initialization time an entry resolved its request time to
InitOf(e) == e.key[2]
IsValidation == call.fn \in {"validate_request", "validate_most_recent_available"}
IsMostRecent == call.fn = "validate_most_recent_available"
Returns == pc = "idle" /\ call.fn # "none"
NotAvailable(e) == e.result.tag = "InitializationTimeNotAvailable"

(***************************************************************************)
(* Claims.                                                                 *)
(***************************************************************************)
\* C1: every request time t resolves to a timestamp whose hour is 1, 7, 13 or 19 and
\* whose minute and second are 0: on the day of t the largest run hour <= hour(t)
\* when hour(t) >= 1, and hour 19 of the day before when hour(t) = 0.
C1_ResolvedSlot ==
    \A i \in Attempts :
        LET t == history[i].request_time
            x == InitOf(history[i])
        IN /\ IsSlot(x)
           /\ IF HourOf(t) >= 1
              THEN /\ DayOf(x) = DayOf(t)
                   /\ HourOf(x) = Max({r \in RunHours : r <= HourOf(t)})
              ELSE /\ DayOf(x) = DayOf(t) - 1
                   /\ HourOf(x) = 19
           /\ x <= t
           /\ SlotsAfterUpTo(x, t) = {}

\* a request at 00:15 was resolved (the wrap to the previous day)
C1_Witness ==
    \E i \in Attempts :
        /\ HourOf(history[i].request_time) = 0
        /\ MinuteOf(history[i].request_time) = 15
        /\ DayOf(InitOf(history[i])) = BaseDay - 1

\* C2: a SiteValidation returned by validate_request or by
\* validate_most_recent_available, after any number of retries, carries an
\* initialization time <= the request time the caller passed, aligned to the schedule.
C2_ValidationNotAfterRequest ==
    (Returns /\ IsValidation /\ result.tag = "Ok") =>
        /\ result.initialization_time <= call.request_time
        /\ IsSlot(result.initialization_time)

\* validate_most_recent_available returned a validation after walking back twice
C2_Witness ==
    /\ Returns /\ IsMostRecent /\ result.tag = "Ok"
    /\ Len(history) = 3
    /\ result.initialization_time < call.request_time - Hours(12)

\* the locations text an entry's body obtained, from the store or by download
TextObtained(e) ==
    \/ e.download = "ok"
    \/ e.read = "hit" /\ local_store[e.key].valid

C4_AtMostTwentyAttempts ==
    IsMostRecent =>
        /\ Len(history) <= 20
        /\ (pc = "loop") => (attempts_left = 20 - Len(history) /\ attempts_left >= 1)
        /\ (Len(history) = 20) => pc = "idle"
        /\ (Len(history) = 20 /\ \A i \in 1..20 : NotAvailable(history[i])) =>
              /\ result = history[20].result
              /\ result = [tag |-> "InitializationTimeNotAvailable",
                           time |-> InitOf(history[20])]

\* all 20 attempts failed and the call returned the last failure
C4_Witness ==
    /\ Returns /\ IsMostRecent
    /\ Len(history) = 20
    /\ \A i \in 1..20 : NotAvailable(history[i])
    /\ result.tag = "InitializationTimeNotAvailable"

\* C5: in validate_most_recent_available, after attempt k fails with
\* InitializationTimeNotAvailable(T_k), attempt k+1 calls validate_request with request
\* time T_k - 1 hour; the initialization times tried are strictly decreasing,
\* consecutive schedule slots, each 6 hours before the one before it.
C5_WalkBackBySlots ==
    IsMostRecent =>
        /\ (history # <<>>) => history[1].request_time = call.request_time
        /\ \A k \in 1..(Len(history) - 1) :
              /\ history[k].result = [tag |-> "InitializationTimeNotAvailable",
                                      time |-> InitOf(history[k])]
              /\ history[k + 1].request_time = InitOf(history[k]) - Hours(1)
              /\ InitOf(history[k + 1]) = InitOf(history[k]) - Hours(6)
              /\ IsSlot(InitOf(history[k + 1]))
        /\ (pc = "loop" /\ history # <<>>) =>
              attempt_request_time = InitOf(history[Len(history)]) - Hours(1)

\* the walk back crossed midnight: four attempts, the last on an earlier day
C5_Witness ==
    /\ IsMostRecent
    /\ Len(history) = 4
    /\ DayOf(InitOf(history[4])) < DayOf(InitOf(history[1]))

\* C6: in validate_most_recent_available an attempt whose outcome is not
\* InitializationTimeNotAvailable ends the loop at once: the call has returned that
\* outcome unchanged and no later attempt, cache read or download exists.
C6_OtherOutcomeReturnsAtOnce ==
    IsMostRecent =>
        \A i \in 1..Len(history) :
            ~NotAvailable(history[i]) =>
                /\ i = Len(history)
                /\ pc = "idle"
                /\ result = history[i].result
                /\ history[i].result.tag \in
                     {"Ok", "NoMatch", "AmbiguousSite", "Internal", "LocalStore"}

\* the second attempt ended the walk back with an ambiguous site
C6_Witness ==
    /\ Returns /\ IsMostRecent
    /\ Len(history) = 2
    /\ NotAvailable(history[1])
    /\ result.tag = "AmbiguousSite"

\* C7: when validate_most_recent_available returns a SiteValidation with initialization
\* time T, every schedule slot after T up to the request time was attempted and failed
\* with InitializationTimeNotAvailable, T is the slot of the last attempt, whose
\* locations text was obtained, and no slot before T was attempted.
C7_MostRecentObtainable ==
    (Returns /\ IsMostRecent /\ result.tag = "Ok") =>
        LET T == result.initialization_time
            last == history[Len(history)]
        IN /\ IsSlot(T) /\ T <= call.request_time
           /\ InitOf(last) = T /\ TextObtained(last)
           /\ \A x \in SlotsAfterUpTo(T, call.request_time) :
                 \E i \in 1..(Len(history) - 1) :
                     /\ InitOf(history[i]) = x
                     /\ history[i].result =
                          [tag |-> "InitializationTimeNotAvailable", time |-> x]
                     /\ history[i].read = "miss" /\ history[i].download = "err"
           /\ \A i \in 1..Len(history) : InitOf(history[i]) >= T
           /\ Len(history) = Cardinality(SlotsAfterUpTo(T, call.request_time)) + 1

\* a validation was returned for the third slot back from the request
C7_Witness ==
    /\ Returns /\ IsMostRecent /\ result.tag = "Ok"
    /\ Cardinality(SlotsAfterUpTo(result.initialization_time, call.request_time)) = 2
    /\ Len(history) = 3

\* C8 as claimed: in validate_request and in retrieve an error of the cache read is
\* treated as a miss: the download is attempted and the read error is never returned.
C8_ReadErrorTreatedAsMiss ==
    \A i \in 1..Len(history) :
        (history[i].read = "err") =>
            /\ history[i].download # "none"
            /\ history[i].result.tag # "LocalStore"

\* C8 amended: in validate_request and in retrieve an error of the cache read is
\* returned to the caller as Error::LocalStore; no download is attempted, nothing is
\* written and the resolver is not run.
C8_ReadErrorReturned ==
    \A i \in 1..Len(history) :
        (history[i].read = "err") =>
            /\ history[i].download = "none"
            /\ history[i].add = "none"
            /\ ~history[i].resolved
            /\ history[i].result = [tag |-> "LocalStore"]
            /\ i = Len(history) /\ pc = "idle" /\ result = [tag |-> "LocalStore"]

\* retrieve returned the error of its cache read
C8_Witness ==
    /\ Returns /\ call.fn = "retrieve"
    /\ history[1].read = "err"
    /\ result.tag = "LocalStore"

\* C9 as claimed: in validate_request and in retrieve, when the download succeeds and
\* the write to the cache fails, the write failure is not returned and the call goes on
\* with the downloaded text as if the write had succeeded.
C9_WriteFailureIgnored ==
    \A i \in 1..Len(history) :
        (history[i].download = "ok" /\ history[i].add = "err") =>
            /\ history[i].result.tag # "LocalStore"
            /\ (history[i].fn = "validate_request") => history[i].resolved
            /\ (history[i].fn = "retrieve") =>
                  history[i].result.tag \in {"OkData", "NBMData"}

\* C10 as claimed: retrieve fails with DataNotAvailable when the file is not in the
\* cache and its download fails; the transport error is not what the caller receives.
C10_DataNotAvailable ==
    (Returns /\ call.fn = "retrieve"
        /\ history[1].read = "miss" /\ history[1].download = "err") =>
        /\ result.tag = "DataNotAvailable"
        /\ result.tag # "Internal"

\* C10 amended: retrieve fails when the file is read as absent from the cache and its
\* download fails, and the caller receives the transport error of the download itself,
\* as Error::Internal; the cache is left without the file.
C10_TransportErrorPassedUp ==
    (Returns /\ call.fn = "retrieve"
        /\ history[1].read = "miss" /\ history[1].download = "err") =>
        /\ result = [tag |-> "Internal", cause |-> "reqwest"]
        /\ history[1].key =
             <<call.validation.site.id \o DotCsv, call.validation.initialization_time>>
        /\ history[1].key \notin DOMAIN local_store
        /\ history[1].add = "none"

\* retrieve missed the cache, the download failed, the caller got the transport error
C10_Witness ==
    /\ Returns /\ call.fn = "retrieve"
    /\ history[1].read = "miss" /\ history[1].download = "err"
    /\ result.tag = "Internal"

(***************************************************************************)
(* Claims about the site resolver, under SpecResolve.                      *)
(***************************************************************************)
\* a string with its letters folded to one case
Fold(str) == [i \in 1..Len(str) |-> ToUpper(str[i])]
\* str contains q as a literal substring, without regard to letter case
ContainsFolded(str, q) ==
    \E k \in 0..(Len(str) - Len(q)) : Fold(SubSeq(str, k + 1, k + Len(q))) = Fold(q)
\* validate has returned
Resolved == call.fn = "validate" /\ result # NoResult
\* the locations table the resolver built from the text of the call
Table == build_locations_database(call.locations_str)
\* the SiteInfo a record of the text stands for
RowOf(rec) ==
    [id |-> Trim(rec[1]), name |-> Trim(rec[2]), state_prov |-> Trim(rec[3]),
     latitude |-> rec[4], longitude |-> rec[5]]
\* a record with five fields whose latitude and longitude parse
IsRow(rec) == Len(rec) >= 5 /\ ParsesAsF64(rec[4]) /\ ParsesAsF64(rec[5])
\* a row matches the query by the rules of the fuzzy stage, taken literally
MatchesLiterally(row, q) ==
    \/ ContainsFolded(row.id, q)
    \/ ContainsFolded(row.name, q)
    \/ Fold(row.state_prov) = Fold(q)

\* C12 as claimed: when the table has a row with id I and another row whose id or name
\* contains I or whose state equals I, a query equal to I in any letter case returns
\* the row with id I and never AmbiguousSite.
C12_ExactIdInAnyCase ==
    Resolved =>
        \A i \in 1..Len(Table) :
            (/\ Fold(Table[i].id) = Fold(call.site)
             /\ \E j \in 1..Len(Table) : j # i /\ MatchesLiterally(Table[j], Table[i].id))
            => result = [tag |-> "Ok", site |-> Table[i]]

\* two results of the resolver are the same outcome
SameOutcome(r1, r2) ==
    /\ r1.tag = r2.tag
    /\ (r1.tag = "Ok") => r1.site = r2.site
    /\ (r1.tag = "AmbiguousSite") => r1.matches = r2.matches

\* C13 as claimed: two queries that differ only in letter case resolve, on every
\* locations table, to the same outcome.
C13_SameOutcomeInAnyCase ==
    Resolved =>
        \A q \in Queries :
            (Fold(q) = Fold(call.site)) =>
                SameOutcome(result, validate(q, call.locations_str))

\* C14 as claimed: when no row's id equals the query, an empty candidate set gives
\* NoMatch carrying the query, one candidate is returned as the site, two or more give
\* AmbiguousSite carrying every candidate in table order.
C14_ClassifiedByCandidates ==
    (Resolved /\ \A i \in 1..Len(Table) : Fold(Table[i].id) # Fold(call.site)) =>
        LET candidates == find_similar_sites(Table, call.site)
        IN IF candidates = <<>>
           THEN result = [tag |-> "NoMatch", site |-> call.site]
           ELSE IF Len(candidates) = 1
           THEN result = [tag |-> "Ok", site |-> candidates[1]]
           ELSE result = [tag |-> "AmbiguousSite", matches |-> candidates]

\* C15 as claimed: for every query the fuzzy candidate set is exactly the rows whose id
\* or name contains the query as a literal substring or whose state equals it, without
\* regard to case; no character of the query is a wildcard or query syntax.
C15_CandidatesMatchLiterally ==
    Resolved =>
        find_similar_sites(Table, call.site)
            = SelectSeq(Table, LAMBDA row : MatchesLiterally(row, call.site))

\* C16 as claimed: site resolution returns one SiteInfo or fails with NoMatch or
\* AmbiguousSite, never with another error kind.
C16_NoOtherErrorKind ==
    Resolved => result.tag \in {"Ok", "NoMatch", "AmbiguousSite"}

\* C17 as claimed: no header row is assumed: every record with five fields and parsable
\* coordinates, the first of the text too, is a candidate, so a text whose only record
\* has id I resolves I to that record.
C17_FirstRecordIsCandidate ==
    (Resolved /\ Len(call.locations_str) = 1 /\ IsRow(call.locations_str[1])
        /\ call.site = Trim(call.locations_str[1][1])) =>
        result = [tag |-> "Ok", site |-> RowOf(call.locations_str[1])]

\* C17 amended: the first record of the text is read as the header and is never a
\* candidate: every site returned, alone or in an ambiguity, is a later record with
\* five fields and parsable coordinates, every such record is found by a query equal to
\* its id, and a text whose only record has id I resolves I to NoMatch.
C17_FirstRecordIsHeader ==
    Resolved =>
        LET text == call.locations_str
            later == {RowOf(text[k]) : k \in {k \in 2..Len(text) : IsRow(text[k])}}
        IN /\ (result.tag = "Ok") => result.site \in later
           /\ (result.tag = "AmbiguousSite") =>
                 \A i \in 1..Len(result.matches) : result.matches[i] \in later
           /\ \A k \in 2..Len(text) :
                 (IsRow(text[k]) /\ call.site = Trim(text[k][1])) =>
                     (result.tag = "Ok" /\ result.site.id = call.site)
           /\ (Len(text) = 1 /\ IsRow(text[1]) /\ call.site = Trim(text[1][1])) =>
                 result = [tag |-> "NoMatch", site |-> call.site]

\* a text whose only record is a station: the query for its id finds no match
C17_Witness ==
    /\ Resolved
    /\ Len(call.locations_str) = 1 /\ IsRow(call.locations_str[1])
    /\ call.site = call.locations_str[1][1]
    /\ result.tag = "NoMatch"

\* the first record of the text, at or after position from, that is a row with the id
FirstRowWithId(text, id, from) ==
    LET ks == {k \in from..Len(text) : IsRow(text[k]) /\ Trim(text[k][1]) = id}
    IN CHOOSE k \in ks : \A j \in ks : k <= j

\* C20 as claimed: a record whose latitude or longitude does not parse is skipped
\* without failing the resolution, and of several rows with the same id the first in
\* text order is kept: a query equal to the id returns that row.
C20_FirstOfAnIdInTheText ==
    Resolved =>
        /\ (\E k \in 1..Len(call.locations_str) : ~IsRow(call.locations_str[k])) =>
              result.tag \in {"Ok", "NoMatch", "AmbiguousSite"} \/ ~SqlPrepares(call.site)
        /\ (Cardinality({k \in 1..Len(call.locations_str) :
                            /\ IsRow(call.locations_str[k])
                            /\ call.site = Trim(call.locations_str[k][1])}) >= 2)
              => result = [tag |-> "Ok",
                           site |-> RowOf(call.locations_str[
                                       FirstRowWithId(call.locations_str, call.site, 1)])]

\* C20 amended: among the records after the first (the header), one whose latitude or
\* longitude does not parse is skipped without failing the resolution, and of several
\* rows with the same id the first is kept: a query equal to the id returns its name,
\* state and coordinates.
C20_FirstOfAnIdAfterHeader ==
    Resolved =>
        LET text == call.locations_str
        IN /\ (\E k \in 2..Len(text) : ~IsRow(text[k])) =>
                 result.tag \in {"Ok", "NoMatch", "AmbiguousSite"} \/ ~SqlPrepares(call.site)
           /\ \A k \in 2..Len(text) :
                 ~IsRow(text[k]) =>
                     \A i \in 1..Len(Table) : Table[i].latitude # text[k][4]
           /\ \A k \in 2..Len(text) :
                 (IsRow(text[k]) /\ call.site = Trim(text[k][1])) =>
                     result = [tag |-> "Ok",
                               site |-> RowOf(text[FirstRowWithId(text, call.site, 2)])]

\* two rows after the header have the query's id and differ; the first is returned
C20_Witness ==
    /\ Resolved
    /\ Len(call.locations_str) = 3
    /\ call.locations_str[2][1] = call.site /\ call.locations_str[3][1] = call.site
    /\ call.locations_str[2][2] # call.locations_str[3][2]
    /\ result.tag = "Ok" /\ result.site.name = call.locations_str[2][2]

(***************************************************************************)
(* Claims about the download URL, under SpecUrl.                           *)
(***************************************************************************)
\* the path segments of a URL: the pieces between its slashes
RECURSIVE Segments(_)
Segments(url) ==
    IF \A i \in 1..Len(url) : url[i] # "/" THEN <<url>>
    ELSE LET cut == CHOOSE i \in 1..Len(url) :
                        url[i] = "/" /\ \A j \in 1..(i - 1) : url[j] # "/"
         IN <<SubSeq(url, 1, cut - 1)>> \o Segments(SubSeq(url, cut + 1, Len(url)))

UrlBuilt == call.fn = "build_download_url" /\ result.tag = "Url"

\* the schema segment: the one after BASE_URL's segments and year, month, day
SchemaOf(url) == Segments(url)[Len(Segments(BASE_URL)) + 3]

\* C18: an initialization time at or before 2020-09-23T00:00:00 puts the segment
\* "NBM" in the download URL and a later one puts "NBM4.0"; the URL of
\* 2020-09-23T00:00:00 itself has "NBM".
C18_SchemaByInitTime ==
    UrlBuilt =>
        /\ ~After(call.init_time, NaiveDateTime(Nbm4StartDay, 0))
              => SchemaOf(result.url) = <<"N", "B", "M">>
        /\ After(call.init_time, NaiveDateTime(Nbm4StartDay, 0))
              => SchemaOf(result.url) = <<"N", "B", "M", "4", ".", "0">>

\* the URL of 2020-09-23T00:00:00 has been built, and so has one of a later time
C18_Witness ==
    /\ UrlBuilt
    /\ call.init_time = NaiveDateTime(Nbm4StartDay, 0)
    /\ SubSeq(Segments(result.url), Len(Segments(BASE_URL)), Len(Segments(BASE_URL)) + 4)
          = << <<"2", "0", "2", "0">>, <<"0", "9">>, <<"2", "3">>, <<"N", "B", "M">>,
               <<"0", "0">> >>
    /\ SchemaOf(build_download_url(call.fname, NaiveDateTime(Nbm4StartDay, 1)))
          = <<"N", "B", "M", "4", ".", "0">>

(***************************************************************************)
(* Claims about a store that serves several calls, under SpecSeq.          *)
(***************************************************************************)
\* body i missed the cache, downloaded the file of its key and wrote it back
WroteBack(i) ==
    history[i].read = "miss" /\ history[i].download = "ok" /\ history[i].add = "ok"

\* body j is a later call for the key of body i
LaterSameKey(i, j) == i < j /\ j <= Len(history) /\ history[j].key = history[i].key

\* C11: after a call that missed the cache, downloaded the file of a key and wrote
\* it back, every later call for that key on the same store gets the same text
\* from the cache and downloads nothing, whatever calls on other keys come between.
C11_LaterCallsServedFromCache ==
    \A i, j \in 1..Len(history) :
        (WroteBack(i) /\ LaterSameKey(i, j)) =>
            /\ history[j].download = "none"
            /\ history[j].read = "hit"
            /\ history[j].text = history[i].text

\* C11, amended: after such a call no later call for that key downloads; a later
\* call whose read of the store succeeds gets the same text from the cache, and
\* one whose read fails returns Error::LocalStore.
C11_LaterCallsNeverDownload ==
    \A i, j \in 1..Len(history) :
        (WroteBack(i) /\ LaterSameKey(i, j)) =>
            /\ history[j].download = "none"
            /\ \/ history[j].read = "hit" /\ history[j].text = history[i].text
               \/ history[j].read = "err" /\ history[j].result = LocalStore

\* a write-back, then a call on another key, then a call on the first key that is
\* served from the cache
C11_Witness ==
    \E i, k, j \in 1..Len(history) :
        /\ WroteBack(i) /\ i < k /\ k < j
        /\ history[k].key # history[i].key
        /\ LaterSameKey(i, j)
        /\ history[j].read = "hit"
        /\ history[j].text = history[i].text

(***************************************************************************)
(* Claims about two callers on one store, under SpecConc.                  *)
(***************************************************************************)
\* both callers asked for the same key, missed it and downloaded its text, and
\* both have returned
BothDownloaded ==
    /\ \A c \in Callers : pc[c] = "done"
    /\ \A c, d \in Callers : KeyOf(call[c]) = KeyOf(call[d])
    /\ \A c \in Callers : history[c].read = "miss" /\ history[c].download = "ok"

\* the caller got the text it downloaded: its body went on with it to the
\* resolver or to the parser
ObtainedText(c) ==
    IF call[c].fn = "validate_request"
    THEN history[c].resolved
    ELSE result[c].tag \in {"OkData", "NBMData"}

\* C19: two callers on the same missing key may both download and both write;
\* under any interleaving of their reads, downloads and writes both get the text
\* downloaded, neither fails because of the other's write, and the cache holds the
\* text for the key in the end.
C19_BothCallersObtainTheText ==
    BothDownloaded =>
        /\ \A c \in Callers : ObtainedText(c)
        /\ \E c \in Callers :
             /\ KeyOf(call[c]) \in DOMAIN local_store
             /\ local_store[KeyOf(call[c])] = as_bytes(history[c].text)

(***************************************************************************)
(* Claims about calls of all three kinds on one store, under SpecCalls.    *)
(***************************************************************************)
\* this step ran the body of validate_request or of retrieve
BodyRan == Len(history') = Len(history) + 1

\* the entry of the body this step ran
BodyEntry == history'[Len(history')]

\* before the step the cache held bytes for the key that are not valid UTF-8
Damaged(key) == key \in DOMAIN local_store /\ ~local_store[key].valid

DecodeError == Internal("utf8")

\* C21: when the cache holds bytes for the requested key that are not valid UTF-8,
\* validate_request and retrieve fail with a decode error, download nothing and
\* leave the cache as it is; validate_most_recent_available returns that error
\* from the attempt at once, without walking back; every later call for the key
\* fails the same way.
C21_DamagedEntryFailsDecoding ==
    [][(BodyRan /\ Damaged(BodyEntry.key)) =>
          /\ BodyEntry.result = DecodeError
          /\ BodyEntry.download = "none"
          /\ local_store' = local_store
          /\ (pc = "loop") => (pc' = "idle" /\ result' = DecodeError)
          /\ \A i \in 1..Len(history) :
                (history[i].key = BodyEntry.key /\ history[i].result = DecodeError)
                   => BodyEntry.result = history[i].result]_vars

\* C21, amended: with such bytes in the cache a body whose read of the store
\* succeeds fails with the decode error and one whose read fails returns
\* Error::LocalStore; either way it downloads nothing, writes nothing and leaves
\* the cache as it is, validate_most_recent_available returns the error from that
\* attempt without walking back, and every later call for the key fails in one of
\* these two ways.
C21_DamagedEntryFailsWithoutDownload ==
    [][(BodyRan /\ Damaged(BodyEntry.key)) =>
          /\ \/ BodyEntry.read = "hit" /\ BodyEntry.result = DecodeError
             \/ BodyEntry.read = "err" /\ BodyEntry.result = LocalStore
          /\ BodyEntry.download = "none"
          /\ BodyEntry.add = "none"
          /\ local_store' = local_store
          /\ (pc = "loop") => (pc' = "idle" /\ result' = BodyEntry.result)
          /\ \A i \in 1..Len(history) :
                (history[i].key = BodyEntry.key /\ history[i].result = DecodeError)
                   => BodyEntry.result \in {DecodeError, LocalStore}]_vars

\* validate_request failed decoding the damaged locations file, and then
\* validate_most_recent_available for the same run returned the decode error
\* from its first attempt; the damaged bytes are still in the cache
C21_Witness ==
    /\ Len(history) = 2
    /\ history[1].fn = "validate_request"
    /\ history[1].result = DecodeError
    /\ history[2].key = history[1].key
    /\ history[2].result = DecodeError
    /\ history[2].download = "none"
    /\ call.fn = "validate_most_recent_available"
    /\ pc = "idle"
    /\ result = DecodeError
    /\ history[1].key \in DOMAIN local_store
    /\ ~local_store[history[1].key].valid

\* C22: across any sequence of validate_request, validate_most_recent_available
\* and retrieve calls the cache only grows: an entry is written only for the key
\* that was just read as absent and then downloaded; a failed download, a cache
\* hit or a site-resolution failure leaves every cache entry as it was; no entry
\* is ever deleted or replaced by another value.
C22_CacheOnlyGrows ==
    [][/\ \A key \in DOMAIN local_store :
             key \in DOMAIN local_store' /\ local_store'[key] = local_store[key]
       /\ (local_store' # local_store) =>
             /\ BodyRan
             /\ BodyEntry.read = "miss"
             /\ BodyEntry.download = "ok"
             /\ BodyEntry.key \notin DOMAIN local_store
             /\ DOMAIN local_store' = DOMAIN local_store \cup {BodyEntry.key}
             /\ local_store'[BodyEntry.key] = as_bytes(BodyEntry.text)
       /\ (BodyRan /\ (BodyEntry.download = "err" \/ BodyEntry.read = "hit")) =>
             local_store' = local_store
       /\ (BodyRan /\ BodyEntry.result.tag \in {"NoMatch", "AmbiguousSite"}) =>
             \A key \in DOMAIN local_store : local_store'[key] = local_store[key]
      ]_vars

\* on a store with two entries a download failed and left the cache alone, then
\* the same key was downloaded and written: the cache has the new entry and both
\* old ones as they were
C22_Witness ==
    /\ Len(history) = 2
    /\ history[1].download = "err"
    /\ history[2].key = history[1].key
    /\ WroteBack(2)
    /\ local_store[history[2].key] = as_bytes(history[2].text)
    /\ \E initial \in InitialStores :
          /\ Cardinality(DOMAIN initial) = 2
          /\ DOMAIN local_store = DOMAIN initial \cup {history[2].key}
          /\ \A key \in DOMAIN initial : local_store[key] = initial[key]

(***************************************************************************)
(* The form of the download URL, under SpecUrl.                            *)
(***************************************************************************)
\* a number in decimal, filled with zeros on the left up to the width
ZeroPadded(n, width) == PadLeft(Decimal(n), width, "0")

\* the URL the form gives for a file name, a time and a schema segment
UrlOfTheForm(fname, init_time, schema) ==
    LET date == CivilFromDays(init_time.date)
    IN BASE_URL \o ZeroPadded(date.year, 4) \o <<"/">> \o ZeroPadded(date.month, 2)
       \o <<"/">> \o ZeroPadded(date.day, 2) \o <<"/">> \o schema \o <<"/">>
       \o ZeroPadded(init_time.secs \div SecondsPerHour, 2) \o <<"/">>
       \o format_file_name_for_download(fname)

\* C23: for every file name and initialization time, under both schemas, the URL
\* is the base URL, the year zero-padded to 4 digits, the month, the day, the
\* schema segment, the hour, each zero-padded to 2 digits, and the file name with
\* "%20" for each space, separated by "/"; no URL holds a space.
C23_UrlForm ==
    UrlBuilt =>
        /\ \E schema \in {<<"N", "B", "M">>, <<"N", "B", "M", "4", ".", "0">>} :
              result.url = UrlOfTheForm(call.fname, call.init_time, schema)
        /\ \A i \in 1..Len(result.url) : result.url[i] # " "

====
